---- MODULE Spec2Model ----
(***************************************************************************)
(* Model of the Backtester engine (src/src/interfaces.ts, class            *)
(* Backtester) of the DynamicThreshold-Hedging backtest.                   *)
(*                                                                         *)
(* One Backtester object is modelled through the life cycle the drivers    *)
(* give it (run-backtest.ts processSymbol, batch-processor.ts              *)
(* BatchProcessor.runBacktest): construction, an optional setSymbolInfo,   *)
(* loadData pushing candles, then one findThresholds run.                  *)
(*                                                                         *)
(* Numbers: prices are integers, and every percentage / threshold is an    *)
(* exact rational <<numerator, denominator>> in lowest terms, so the       *)
(* comparisons of the code are decided exactly (IEEE rounding is not       *)
(* modelled).                                                              *)
(***************************************************************************)
EXTENDS Integers, Sequences, FiniteSets, TLC

VARIABLES
    runConfig,        \* constructor argument: lookback, threshold, thresholdMultiplier, maxLookForwardCandles
    symbolInfo,       \* "unset" | "set"   (this.symbolInfo)
    candles,          \* this.candles
    totalCandles,     \* this.totalCandles
    legendCandles,    \* this.legendCandles
    successfulTrades, \* this.successfulTrades
    pc,               \* position of findThresholds: "idle" | "running" | "returned" | "threw"
    i,                \* loop variable of findThresholds
    results,          \* local list `results` of findThresholds (the returned list once pc = "returned")
    scanReads,        \* per result: the set of candle indices (0-based) the entry scan read
    written,          \* <<>> or <<document>>: what saveResults wrote
    evaluated,        \* per loop iteration: the candle index and the indices of its lookback slice
    error,            \* message of the Error thrown out of findThresholds, "none" before
    driver,           \* caller of the engine: "processSymbol" | "runBacktest"
    returned,         \* the lists findThresholds has returned, one per completed call
    completed,        \* runBacktest: completedBacktests has this pair
    \* the batch drivers (run-backtest.ts runBatchBacktest, batch-processor.ts BatchProcessor)
    batchDriver,      \* "runBatchBacktest" | "downloadAllData" | "runAllBacktests" | "runBatch", "none" outside a batch
    useParallel,      \* parallel mode
    concurrencyLimit, \* the configured concurrencyLimit
    queue,            \* (symbol, timeframe) pairs not yet started
    batch,            \* pairs of the batch being awaited
    inFlight,         \* started, unsettled pairs, each with the result path its scan writes
    status,           \* per queued pair: "pending" | "running" | "settled"
    rejected,         \* a promise of the awaited batch has rejected
    bpc               \* position of the driver: "idle" | "loop" | "await" | "done" | "aborted"

engineVars == <<runConfig, symbolInfo, candles, totalCandles, legendCandles,
                successfulTrades, pc, i, results, scanReads, written,
                evaluated, error, driver, returned, completed>>

batchVars == <<batchDriver, useParallel, concurrencyLimit, queue, batch,
               inFlight, status, rejected, bpc>>

vars == <<runConfig, symbolInfo, candles, totalCandles, legendCandles,
          successfulTrades, pc, i, results, scanReads, written,
          evaluated, error, driver, returned, completed,
          batchDriver, useParallel, concurrencyLimit, queue, batch,
          inFlight, status, rejected, bpc>>

----------------------------------------------------------------------------
(* Bounds of the model.  The lookback length (10..200 by timeframe in       *)
(* getLookbackPeriod) and maxLookForwardCandles (100 in config.ts) are     *)
(* drawn from 1..MaxLookback and 1..MaxLookForward.                        *)

MaxCandles == 5
MaxLookback == 2
MaxLookForward == 2

(* values the configuration's threshold and thresholdMultiplier are drawn from *)
ThresholdValues == {1, 2}
MultiplierValues == {1, 2}

(* The candle shapes rows are drawn from: open > 0, low <= open, close <= high *)
CandleKinds ==
    { [open |-> 10, high |-> 11, low |-> 9,  close |-> 11],
      [open |-> 10, high |-> 13, low |-> 7,  close |-> 10],
      [open |-> 20, high |-> 21, low |-> 16, close |-> 16] }

----------------------------------------------------------------------------
(* Exact rational arithmetic *)

Abs(x) == IF x < 0 THEN -x ELSE x

Min(a, b) == IF a < b THEN a ELSE b

RECURSIVE GCD(_, _)
GCD(a, b) == IF b = 0 THEN a ELSE GCD(b, a % b)

Rat(n, d) ==
    LET g == GCD(Abs(n), Abs(d))
        s == IF d < 0 THEN -1 ELSE 1
    IN  IF n = 0 THEN <<0, 1>> ELSE <<(s * n) \div g, (s * d) \div g>>

RInt(n) == <<n, 1>>
RAdd(a, b) == Rat(a[1] * b[2] + b[1] * a[2], a[2] * b[2])
RSub(a, b) == Rat(a[1] * b[2] - b[1] * a[2], a[2] * b[2])
RMul(a, b) == Rat(a[1] * b[1], a[2] * b[2])
RDiv(a, b) == Rat(a[1] * b[2], a[2] * b[1])
RGeq(a, b) == a[1] * b[2] >= b[1] * a[2]
RLeq(a, b) == a[1] * b[2] <= b[1] * a[2]

----------------------------------------------------------------------------
(* Pure parts of the engine.  Sequences are 1-based in TLA+, so the candle *)
(* at 0-based index k of the code is cs[k + 1].                            *)

At(cs, k) == cs[k + 1]

getLookbackPeriod(cfg) == cfg.lookback

(* (Math.abs(candle.close - candle.open) / candle.open) * 100 *)
movement(c) == Rat(Abs(c.close - c.open) * 100, c.open)

(* previousDiffs.reduce((a, b) => a + b, 0) over candles.slice(from, to) *)
RECURSIVE sumDiffs(_, _, _)
sumDiffs(cs, from, to) ==
    IF from >= to THEN RInt(0)
    ELSE RAdd(movement(At(cs, from)), sumDiffs(cs, from + 1, to))

(* mutant: the slice ends at the evaluated candle itself *)
lookbackSliceInclusive(index, lookbackPeriod) ==
    [from |-> index - lookbackPeriod + 1, to |-> index + 1]

(* this.candles.slice(index - lookbackPeriod, index): from inclusive, to exclusive *)
lookbackSlice(index, lookbackPeriod) ==
    [from |-> index - lookbackPeriod, to |-> index]

(* averageDiff over candles.slice(index - lookbackPeriod, index) *)
averageDiff(cs, index, cfg) ==
    RDiv(sumDiffs(cs, lookbackSlice(index, getLookbackPeriod(cfg)).from,
                  lookbackSlice(index, getLookbackPeriod(cfg)).to),
         RInt(getLookbackPeriod(cfg)))


(* mutant: the legend check scaled by thresholdMultiplier instead of threshold *)
isLegendCandleMultiplier(cs, index, cfg) ==
    IF index < getLookbackPeriod(cfg) THEN FALSE
    ELSE RGeq(movement(At(cs, index)),
              RMul(RInt(cfg.thresholdMultiplier), averageDiff(cs, index, cfg)))

(* isLegendCandle: currentDiff >= threshold * averageDiff *)
isLegendCandle(cs, index, cfg) ==
    IF index < getLookbackPeriod(cfg) THEN FALSE
    ELSE RGeq(movement(At(cs, index)),
              RMul(RInt(cfg.threshold), averageDiff(cs, index, cfg)))

(* mutant: the thresholds are sized by the base threshold *)
dynamicThresholdBase(cs, index, cfg) ==
    RMul(averageDiff(cs, index, cfg), RInt(cfg.threshold))

(* findThresholds: dynamicThreshold = averageDiff * thresholdMultiplier *)
dynamicThreshold(cs, index, cfg) ==
    RMul(averageDiff(cs, index, cfg), RInt(cfg.thresholdMultiplier))

(* mutant: the threshold value is taken from the candle's open *)
thresholdValueOfOpen(candle, dt) == RMul(RInt(candle.open), RDiv(dt, RInt(100)))

(* processLegendCandle: thresholdValue = candle.close * (dynamicThreshold / 100) *)
thresholdValue(candle, dt) == RMul(RInt(candle.close), RDiv(dt, RInt(100)))

upwardThreshold(candle, dt) == RAdd(RInt(candle.close), thresholdValue(candle, dt))

downwardThreshold(candle, dt) == RSub(RInt(candle.close), thresholdValue(candle, dt))

(* formatPrice / formatCandleDetails throw 'Symbol info not set' *)
formatPriceThrows(info) == info = "unset"

(* mutant: saveResults writes without looking at the symbol info *)
saveResultsNeverThrows(info) == FALSE

(* saveResults throws 'Symbol info not set before saving results' *)
saveResultsThrows(info) == info = "unset"

(* mutant: the ordinal is taken before the increment, so it is 0-based *)
legendCandleNoZeroBased(legendCount) == legendCount

(* Legend_Candle_no: this.legendCandles + 1 *)
legendCandleNo(legendCount) == legendCount + 1

(* mutant: the look-forward loop runs one candle too far *)
scanEndOneMore(candleIndex, maxLookForward, len) ==
    Min(candleIndex + maxLookForward + 2, len)

(* exclusive upper bound of the look-forward loop *)
scanEnd(candleIndex, maxLookForward, len) ==
    Min(candleIndex + maxLookForward + 1, len)

NoTrigger == [entry |-> <<>>, success |-> FALSE]

(* mutant: the entry is priced at the triggering candle's high / low *)
scanStepCandlePrice(futureCandle, j, up, down, candlesChecked) ==
    IF RGeq(RInt(futureCandle.high), up)
    THEN [entry |-> << [reason |-> "UpwardThresholdMet", side |-> "LONG",
                        price |-> RInt(futureCandle.high), time |-> j,
                        candlesUntilThreshold |-> candlesChecked] >>,
          success |-> TRUE]
    ELSE IF RLeq(RInt(futureCandle.low), down)
    THEN [entry |-> << [reason |-> "DownwardThresholdMet", side |-> "SHORT",
                        price |-> RInt(futureCandle.low), time |-> j,
                        candlesUntilThreshold |-> candlesChecked] >>,
          success |-> TRUE]
    ELSE NoTrigger

(* mutant: the SHORT branch forgets result.success = true *)
scanStepShortNoSuccess(futureCandle, j, up, down, candlesChecked) ==
    IF RGeq(RInt(futureCandle.high), up)
    THEN [entry |-> << [reason |-> "UpwardThresholdMet", side |-> "LONG",
                        price |-> up, time |-> j,
                        candlesUntilThreshold |-> candlesChecked] >>,
          success |-> TRUE]
    ELSE IF RLeq(RInt(futureCandle.low), down)
    THEN [entry |-> << [reason |-> "DownwardThresholdMet", side |-> "SHORT",
                        price |-> down, time |-> j,
                        candlesUntilThreshold |-> candlesChecked] >>,
          success |-> FALSE]
    ELSE NoTrigger

(* mutant: candlesChecked is incremented at the end of the loop body *)
scanStepCountAfter(futureCandle, j, up, down, candlesChecked) ==
    IF RGeq(RInt(futureCandle.high), up)
    THEN [entry |-> << [reason |-> "UpwardThresholdMet", side |-> "LONG",
                        price |-> up, time |-> j,
                        candlesUntilThreshold |-> candlesChecked - 1] >>,
          success |-> TRUE]
    ELSE IF RLeq(RInt(futureCandle.low), down)
    THEN [entry |-> << [reason |-> "DownwardThresholdMet", side |-> "SHORT",
                        price |-> down, time |-> j,
                        candlesUntilThreshold |-> candlesChecked - 1] >>,
          success |-> TRUE]
    ELSE NoTrigger

(* mutant: the downward threshold is tested before the upward one *)
scanStepDownFirst(futureCandle, j, up, down, candlesChecked) ==
    IF RLeq(RInt(futureCandle.low), down)
    THEN [entry |-> << [reason |-> "DownwardThresholdMet", side |-> "SHORT",
                        price |-> down, time |-> j,
                        candlesUntilThreshold |-> candlesChecked] >>,
          success |-> TRUE]
    ELSE IF RGeq(RInt(futureCandle.high), up)
    THEN [entry |-> << [reason |-> "UpwardThresholdMet", side |-> "LONG",
                        price |-> up, time |-> j,
                        candlesUntilThreshold |-> candlesChecked] >>,
          success |-> TRUE]
    ELSE NoTrigger

(* body of the look-forward loop for the future candle at index j, after   *)
(* candlesChecked++ : the if / else-if that builds result.entry.  The      *)
(* entry's time is the future candle's openTime, modelled by its index.    *)
scanStep(futureCandle, j, up, down, candlesChecked) ==
    IF RGeq(RInt(futureCandle.high), up)
    THEN [entry |-> << [reason |-> "UpwardThresholdMet", side |-> "LONG",
                        price |-> up, time |-> j,
                        candlesUntilThreshold |-> candlesChecked] >>,
          success |-> TRUE]
    ELSE IF RLeq(RInt(futureCandle.low), down)
    THEN [entry |-> << [reason |-> "DownwardThresholdMet", side |-> "SHORT",
                        price |-> down, time |-> j,
                        candlesUntilThreshold |-> candlesChecked] >>,
          success |-> TRUE]
    ELSE NoTrigger

(* mutant: no break, so the last triggering candle of the window wins *)
RECURSIVE entryScanNoBreak(_, _, _, _, _, _, _)
entryScanNoBreak(cs, j, end, up, down, candlesChecked, reads) ==
    IF j >= end
    THEN [entry |-> <<>>, success |-> FALSE, reads |-> reads]
    ELSE LET step == scanStep(At(cs, j), j, up, down, candlesChecked + 1)
             rest == entryScanNoBreak(cs, j + 1, end, up, down,
                                      candlesChecked + 1, reads \cup {j})
         IN  IF rest.entry # <<>> \/ step.entry = <<>>
             THEN rest
             ELSE [entry |-> step.entry, success |-> step.success,
                   reads |-> rest.reads]

(* the look-forward loop: for (i = candleIndex + 1; i < end; i++) with     *)
(* break on the first trigger; reads collects the indices it read          *)
RECURSIVE entryScan(_, _, _, _, _, _, _)
entryScan(cs, j, end, up, down, candlesChecked, reads) ==
    IF j >= end
    THEN [entry |-> <<>>, success |-> FALSE, reads |-> reads]
    ELSE LET step == scanStep(At(cs, j), j, up, down, candlesChecked + 1)
         IN  IF step.entry # <<>>
             THEN [entry |-> step.entry, success |-> step.success,
                   reads |-> reads \cup {j}]
             ELSE entryScan(cs, j + 1, end, up, down, candlesChecked + 1,
                            reads \cup {j})

(* processLegendCandle: null when the candle is not a legend candle, a     *)
(* throw when a price has to be formatted without symbol info, else the    *)
(* ThresholdResult.  timestamp is the candle's openTime, modelled by its   *)
(* index in the series.  The LegendCandle fields hold the numbers handed   *)
(* to toFixed / formatPrice; their decimal rendering is not modelled.      *)
processLegendCandle(cs, candleIndex, dt, cfg, legendCount, info) ==
    IF ~isLegendCandle(cs, candleIndex, cfg)
    THEN [kind |-> "null"]
    ELSE IF formatPriceThrows(info)
    THEN [kind |-> "throw"]
    ELSE LET candle == At(cs, candleIndex)
             up == upwardThreshold(candle, dt)
             down == downwardThreshold(candle, dt)
             scan == entryScan(cs, candleIndex + 1,
                               scanEnd(candleIndex, cfg.maxLookForwardCandles, Len(cs)),
                               up, down, 0, {})
         IN  [kind |-> "result",
              result |-> [Legend_Candle_no |-> legendCandleNo(legendCount),
                          timestamp |-> candleIndex,
                          LegendCandle |->
                              [currentDynamicThreshold |-> dt,
                               upwardThreshold |-> up,
                               downwardThreshold |-> down,
                               LegendCandleDifference |-> movement(candle)],
                          entry |-> scan.entry,
                          success |-> scan.success],
              reads |-> scan.reads]

(* successRate: legendCandles > 0 ? (successfulTrades / legendCandles) * 100 : 0 *)
successRate(legend, successful) ==
    IF legend > 0 THEN RMul(Rat(successful, legend), RInt(100)) ELSE RInt(0)

getStats(total, legend, successful) ==
    [totalCandles |-> total, legendCandles |-> legend,
     successfulTrades |-> successful,
     successRate |-> successRate(legend, successful)]

(* mutant: the insufficient-data short circuit is missing *)
insufficientDataIgnored(len, lookbackPeriod) == FALSE

(* findThresholds: if (this.candles.length < lookbackPeriod) return results *)
insufficientData(len, lookbackPeriod) == len < lookbackPeriod

(* mutant: every legend candle is counted as a successful trade *)
countSuccessAlways(successful, result) == successful + 1

(* findThresholds: if (result.success) this.successfulTrades++ *)
countSuccess(successful, result) ==
    IF result.success THEN successful + 1 ELSE successful

----------------------------------------------------------------------------
(* State machine *)

Configs ==
    [lookback : 1..MaxLookback,
     threshold : ThresholdValues,
     thresholdMultiplier : MultiplierValues,
     maxLookForwardCandles : 1..MaxLookForward]

(* no batch driver is running *)
BatchIdle ==
    /\ batchDriver = "none"
    /\ useParallel = FALSE
    /\ concurrencyLimit = 0
    /\ queue = <<>>
    /\ batch = {}
    /\ inFlight = {}
    /\ status = <<>>
    /\ rejected = FALSE
    /\ bpc = "idle"

(* new Backtester(symbol, runConfig) *)
Init ==
    /\ runConfig \in Configs
    /\ symbolInfo = "unset"
    /\ candles = <<>>
    /\ totalCandles = 0
    /\ legendCandles = 0
    /\ successfulTrades = 0
    /\ pc = "idle"
    /\ i = 0
    /\ results = <<>>
    /\ scanReads = <<>>
    /\ written = <<>>
    /\ evaluated = <<>>
    /\ error = "none"
    /\ driver \in {"processSymbol", "runBacktest"}
    /\ returned = <<>>
    /\ completed = FALSE
    /\ BatchIdle

(* backtester.setSymbolInfo(symbolInfo), called by processSymbol before    *)
(* the data is loaded (BatchProcessor.runBacktest never calls it)          *)
setSymbolInfo ==
    /\ driver = "processSymbol"
    /\ pc = "idle"
    /\ candles = <<>>
    /\ symbolInfo = "unset"
    /\ symbolInfo' = "set"
    /\ UNCHANGED <<runConfig, candles, totalCandles, legendCandles,
                   successfulTrades, pc, i, results, scanReads, written,
                   evaluated, error, driver, returned, completed>>
    /\ UNCHANGED batchVars

(* loadData, one row inside the date range: candles.push, totalCandles++ *)
loadData(candle) ==
    /\ pc = "idle"
    /\ driver = "processSymbol" => symbolInfo = "set"
    /\ Len(candles) < MaxCandles
    /\ candles' = Append(candles, candle)
    /\ totalCandles' = totalCandles + 1
    /\ UNCHANGED <<runConfig, symbolInfo, legendCandles, successfulTrades,
                   pc, i, results, scanReads, written,
                   evaluated, error, driver, returned, completed>>
    /\ UNCHANGED batchVars

(* findThresholds up to the loop: results = [], the insufficient-data     *)
(* short circuit, else i = lookbackPeriod                                  *)
findThresholdsStart ==
    /\ pc = "idle"
    /\ driver = "processSymbol" => symbolInfo = "set"
    /\ results' = <<>>
    /\ scanReads' = <<>>
    /\ IF insufficientData(Len(candles), getLookbackPeriod(runConfig))
       THEN /\ pc' = "returned"
            /\ i' = i
            /\ returned' = Append(returned, <<>>)
       ELSE /\ pc' = "running"
            /\ i' = getLookbackPeriod(runConfig)
            /\ returned' = returned
    /\ UNCHANGED <<runConfig, symbolInfo, candles, totalCandles,
                   legendCandles, successfulTrades, written,
                   evaluated, error, driver, completed>>
    /\ UNCHANGED batchVars

(* one iteration of the main loop of findThresholds *)
findThresholdsStep ==
    /\ pc = "running"
    /\ i < Len(candles)
    /\ evaluated' =
          Append(evaluated,
                 [index |-> i,
                  window |-> lookbackSlice(i, getLookbackPeriod(runConfig)).from
                             .. (lookbackSlice(i, getLookbackPeriod(runConfig)).to - 1)])
    /\ LET out == processLegendCandle(candles, i,
                                      dynamicThreshold(candles, i, runConfig),
                                      runConfig, legendCandles, symbolInfo)
       IN  CASE out.kind = "throw" ->
                  /\ pc' = "threw"
                  /\ error' = "Symbol info not set"
                  /\ UNCHANGED <<i, results, scanReads, legendCandles, successfulTrades>>
             [] out.kind = "null" ->
                  /\ i' = i + 1
                  /\ UNCHANGED <<pc, error, results, scanReads, legendCandles,
                                 successfulTrades>>
             [] out.kind = "result" ->
                  /\ legendCandles' = legendCandles + 1
                  /\ results' = Append(results, out.result)
                  /\ scanReads' = Append(scanReads, out.reads)
                  /\ successfulTrades' = countSuccess(successfulTrades, out.result)
                  /\ i' = i + 1
                  /\ UNCHANGED <<pc, error>>
    /\ UNCHANGED <<runConfig, symbolInfo, candles, totalCandles, written,
                   driver, returned, completed>>
    /\ UNCHANGED batchVars

(* loop end: await this.saveResults(results); return results *)
findThresholdsFinish ==
    /\ pc = "running"
    /\ i >= Len(candles)
    /\ IF saveResultsThrows(symbolInfo)
       THEN /\ pc' = "threw"
            /\ error' = "Symbol info not set before saving results"
            /\ written' = written
            /\ returned' = returned
       ELSE /\ pc' = "returned"
            /\ error' = error
            /\ returned' = Append(returned, results)
            /\ written' = << [results |-> results,
                              stats |-> getStats(totalCandles, legendCandles,
                                                 successfulTrades)] >>
    /\ UNCHANGED <<runConfig, symbolInfo, candles, totalCandles, legendCandles,
                   successfulTrades, i, results, scanReads,
                   evaluated, driver, completed>>
    /\ UNCHANGED batchVars

(* BatchProcessor.runBacktest after findThresholds returned:               *)
(* this.completedBacktests.add(`${symbol}-${timeframe}`)                   *)
markCompleted ==
    /\ driver = "runBacktest"
    /\ pc = "returned"
    /\ ~completed
    /\ completed' = TRUE
    /\ UNCHANGED <<runConfig, symbolInfo, candles, totalCandles, legendCandles,
                   successfulTrades, pc, i, results, scanReads, written,
                   evaluated, error, driver, returned>>
    /\ UNCHANGED batchVars

----------------------------------------------------------------------------
(* The concrete scenario of the specification's section 8, prices in       *)
(* tenths: three window candles open 100 / close 100.5, then the candle    *)
(* (open 100, high 130, low 70, close 120), with lookback 3 and            *)
(* multiplier 2.  processSymbol has set the symbol info and loaded these   *)
(* four rows; forward candles with high 130 follow.                        *)

ScenarioMaxCandles == 6

ScenarioWindowCandle == [open |-> 1000, high |-> 1005, low |-> 1000, close |-> 1005]

ScenarioCandle == [open |-> 1000, high |-> 1300, low |-> 700, close |-> 1200]

ScenarioForward ==
    [open : {1200, 1250}, high : {1300}, low : {700, 1190}, close : {1200, 1300}]

InitScenario ==
    /\ runConfig \in [lookback : {3},
                      threshold : ThresholdValues,
                      thresholdMultiplier : {2},
                      maxLookForwardCandles : 1..MaxLookForward]
    /\ symbolInfo = "set"
    /\ candles = <<ScenarioWindowCandle, ScenarioWindowCandle,
                   ScenarioWindowCandle, ScenarioCandle>>
    /\ totalCandles = 4
    /\ legendCandles = 0
    /\ successfulTrades = 0
    /\ pc = "idle"
    /\ i = 0
    /\ results = <<>>
    /\ scanReads = <<>>
    /\ written = <<>>
    /\ evaluated = <<>>
    /\ error = "none"
    /\ driver = "processSymbol"
    /\ returned = <<>>
    /\ completed = FALSE
    /\ BatchIdle

(* loadData for a following row of the scenario *)
loadForward(candle) ==
    /\ pc = "idle"
    /\ Len(candles) < ScenarioMaxCandles
    /\ candles' = Append(candles, candle)
    /\ totalCandles' = totalCandles + 1
    /\ UNCHANGED <<runConfig, symbolInfo, legendCandles, successfulTrades,
                   pc, i, results, scanReads, written,
                   evaluated, error, driver, returned, completed>>
    /\ UNCHANGED batchVars

NextScenario ==
    \/ \E candle \in ScenarioForward : loadForward(candle)
    \/ findThresholdsStart
    \/ findThresholdsStep
    \/ findThresholdsFinish

SpecScenario == InitScenario /\ [][NextScenario]_vars

Next ==
    \/ setSymbolInfo
    \/ \E candle \in CandleKinds : loadData(candle)
    \/ findThresholdsStart
    \/ findThresholdsStep
    \/ findThresholdsFinish
    \/ markCompleted

Spec == Init /\ [][Next]_vars

(* A caller that keeps the Backtester and calls findThresholds (or run,    *)
(* which only awaits findThresholds) again after it returned: a fresh      *)
(* local results list, the object's candles and counters as they are.     *)
MaxRuns == 2

findThresholdsAgain ==
    /\ pc = "returned"
    /\ Len(returned) < MaxRuns
    /\ results' = <<>>
    /\ scanReads' = <<>>
    /\ IF insufficientData(Len(candles), getLookbackPeriod(runConfig))
       THEN /\ pc' = "returned"
            /\ i' = i
            /\ returned' = Append(returned, <<>>)
       ELSE /\ pc' = "running"
            /\ i' = getLookbackPeriod(runConfig)
            /\ returned' = returned
    /\ UNCHANGED <<runConfig, symbolInfo, candles, totalCandles,
                   legendCandles, successfulTrades, written,
                   evaluated, error, driver, completed>>
    /\ UNCHANGED batchVars

NextRerun ==
    \/ setSymbolInfo
    \/ \E candle \in CandleKinds : loadData(candle)
    \/ findThresholdsStart
    \/ findThresholdsStep
    \/ findThresholdsFinish
    \/ markCompleted
    \/ findThresholdsAgain

SpecRerun == Init /\ [][NextRerun]_vars

----------------------------------------------------------------------------
(* The batch drivers.  A run of one (symbol, timeframe) pair is a task     *)
(* that is started, stays in flight and settles, with or without an        *)
(* error.  processSymbol catches every error of its run, so its promise    *)
(* always fulfils; BatchProcessor.downloadData and runBacktest log the     *)
(* error and throw it again.  Symbols and timeframes are numbered in the   *)
(* order of AVAILABLE_SYMBOLS and AVAILABLE_TIMEFRAMES.                    *)

MaxSymbols == 3
MaxTimeframes == 2
MaxLimit == 2

(* run-backtest.ts: concurrencyLimit || 5 *)
DefaultConcurrencyLimit == 5

Symbols == 1..MaxSymbols

Timeframes == 1..MaxTimeframes

LimitValues == (0 - 1)..MaxLimit

BatchDrivers == {"runBatchBacktest", "downloadAllData", "runAllBacktests", "runBatch"}

(* the nested for loops that fill the queue: symbols outside, timeframes   *)
(* inside; runBatchBacktest skips a symbol whose info could not be fetched *)
RECURSIVE buildQueue(_, _, _)
buildQueue(withInfo, symbol, timeframe) ==
    IF symbol > MaxSymbols THEN <<>>
    ELSE IF timeframe > MaxTimeframes THEN buildQueue(withInfo, symbol + 1, 1)
    ELSE (IF symbol \in withInfo THEN << <<symbol, timeframe>> >> ELSE <<>>)
         \o buildQueue(withInfo, symbol, timeframe + 1)

(* the limit the splice uses *)
effectiveLimit(d, limit) ==
    IF d = "runBatchBacktest"
    THEN (IF limit = 0 THEN DefaultConcurrencyLimit ELSE limit)
    ELSE limit

(* mutant: the batch takes one pair more than the limit *)
spliceCountOneMore(limit, len) ==
    IF limit + 1 <= 0 THEN 0 ELSE Min(limit + 1, len)

(* number of elements queue.splice(0, limit) removes *)
spliceCount(limit, len) ==
    IF limit <= 0 THEN 0 ELSE Min(limit, len)

(* pairs the next await covers: a spliced batch in parallel mode, one pair *)
(* in the sequential loops and in runBatch                                 *)
takeCount(d, parallel, limit, len) ==
    IF parallel /\ d # "runBatch"
    THEN spliceCount(effectiveLimit(d, limit), len)
    ELSE Min(1, len)

(* mutant: the result file is named after the symbol, not the timeframe *)
resultPathSymbolOnly(symbol, timeframe) ==
    <<"results", symbol, <<symbol, "_results.json">> >>

(* saveResults: results/<symbol>/<timeframe>_results.json *)
resultPath(symbol, timeframe) ==
    <<"results", symbol, <<timeframe, "_results.json">> >>

(* the promise of a failed run rejects: downloadData / runBacktest throw   *)
(* the error again, processSymbol swallows it                              *)
runRejects(d) == d # "runBatchBacktest"

(* runBatch wraps each run in try / catch *)
loopCatches(d) == d = "runBatch"

InFlightPairs == {<<f.symbol, f.timeframe>> : f \in inFlight}

EngineIdle ==
    /\ runConfig = [lookback |-> 1, threshold |-> 1, thresholdMultiplier |-> 1,
                    maxLookForwardCandles |-> 1]
    /\ symbolInfo = "unset"
    /\ candles = <<>>
    /\ totalCandles = 0
    /\ legendCandles = 0
    /\ successfulTrades = 0
    /\ pc = "idle"
    /\ i = 0
    /\ results = <<>>
    /\ scanReads = <<>>
    /\ written = <<>>
    /\ evaluated = <<>>
    /\ error = "none"
    /\ driver = "processSymbol"
    /\ returned = <<>>
    /\ completed = FALSE

(* the driver has filled its queue and is about to enter its loop *)
InitBatch ==
    /\ EngineIdle
    /\ batchDriver \in BatchDrivers
    /\ useParallel \in BOOLEAN
    /\ concurrencyLimit \in LimitValues
    /\ \E withInfo \in SUBSET Symbols :
          /\ batchDriver # "runBatchBacktest" => withInfo = Symbols
          /\ queue = buildQueue(withInfo, 1, 1)
    /\ batch = {}
    /\ inFlight = {}
    /\ status = [p \in {queue[n] : n \in 1..Len(queue)} |-> "pending"]
    /\ rejected = FALSE
    /\ bpc = "loop"

(* while (queue.length > 0) { batch = queue.splice(0, limit);              *)
(* Promise.all(batch.map(run)) ... : every run of the batch is started;    *)
(* in sequential mode the next pair of the for loops is started            *)
startBatch ==
    /\ bpc = "loop"
    /\ queue # <<>>
    /\ LET n == takeCount(batchDriver, useParallel, concurrencyLimit, Len(queue))
           taken == {queue[k] : k \in 1..n}
       IN  /\ batch' = taken
           /\ queue' = SubSeq(queue, n + 1, Len(queue))
           /\ inFlight' = inFlight \cup
                 {[symbol |-> p[1], timeframe |-> p[2],
                   path |-> resultPath(p[1], p[2])] : p \in taken}
           /\ status' = [p \in DOMAIN status |->
                            IF p \in taken THEN "running" ELSE status[p]]
    /\ rejected' = FALSE
    /\ bpc' = "await"
    /\ UNCHANGED <<batchDriver, useParallel, concurrencyLimit>>
    /\ UNCHANGED engineVars

(* a run in flight ends without an error *)
settleOk(f) ==
    /\ f \in inFlight
    /\ inFlight' = inFlight \ {f}
    /\ status' = [status EXCEPT ![<<f.symbol, f.timeframe>>] = "settled"]
    /\ UNCHANGED <<batchDriver, useParallel, concurrencyLimit, queue, batch,
                   rejected, bpc>>
    /\ UNCHANGED engineVars

(* a run in flight ends with an error: caught and logged; its promise      *)
(* rejects when the run throws the error again                             *)
settleError(f) ==
    /\ f \in inFlight
    /\ inFlight' = inFlight \ {f}
    /\ status' = [status EXCEPT ![<<f.symbol, f.timeframe>>] = "settled"]
    /\ rejected' = (rejected \/ (runRejects(batchDriver) /\ bpc = "await"))
    /\ UNCHANGED <<batchDriver, useParallel, concurrencyLimit, queue, batch, bpc>>
    /\ UNCHANGED engineVars

(* the await returns: every promise of the batch fulfilled, or the         *)
(* rejection was caught by runBatch's try / catch                          *)
resumeLoop ==
    /\ bpc = "await"
    /\ batch \cap InFlightPairs = {}
    /\ ~rejected \/ loopCatches(batchDriver)
    /\ bpc' = "loop"
    /\ rejected' = FALSE
    /\ UNCHANGED <<batchDriver, useParallel, concurrencyLimit, queue, batch,
                   inFlight, status>>
    /\ UNCHANGED engineVars

(* the await throws: Promise.all rejects with the first rejection (the     *)
(* sequential await, with the run's), and nothing catches it in the loop   *)
abortLoop ==
    /\ bpc = "await"
    /\ rejected
    /\ ~loopCatches(batchDriver)
    /\ bpc' = "aborted"
    /\ UNCHANGED <<batchDriver, useParallel, concurrencyLimit, queue, batch,
                   inFlight, status, rejected>>
    /\ UNCHANGED engineVars

(* the loop ends with the queue empty *)
finishLoop ==
    /\ bpc = "loop"
    /\ queue = <<>>
    /\ bpc' = "done"
    /\ UNCHANGED <<batchDriver, useParallel, concurrencyLimit, queue, batch,
                   inFlight, status, rejected>>
    /\ UNCHANGED engineVars

NextBatch ==
    \/ startBatch
    \/ \E f \in inFlight : settleOk(f)
    \/ \E f \in inFlight : settleError(f)
    \/ resumeLoop
    \/ abortLoop
    \/ finishLoop

SpecBatch == InitBatch /\ [][NextBatch]_vars

(* The driver is a running async function: the event loop resumes it after *)
(* every await and every run in flight settles, so a step that stays       *)
(* possible is eventually taken.                                           *)
SpecBatchFair == InitBatch /\ [][NextBatch]_vars /\ WF_vars(NextBatch)

----------------------------------------------------------------------------
(* Reference definitions for the properties: written from the series and   *)
(* the configuration alone, without the operators of the engine above.     *)

RefLookback == runConfig.lookback

RefMove(k) ==
    Rat(Abs(candles[k + 1].close - candles[k + 1].open) * 100, candles[k + 1].open)

RECURSIVE RefSumMoves(_, _)
RefSumMoves(k, n) ==
    IF n = 0 THEN <<0, 1>> ELSE RAdd(RefMove(k - n), RefSumMoves(k, n - 1))

(* mean move of the RefLookback candles immediately preceding index k *)
RefAverage(k) == RDiv(RefSumMoves(k, RefLookback), <<RefLookback, 1>>)

(* the advisory / legend check of candle k *)
RefGate(k) == RGeq(RefMove(k), RMul(<<runConfig.threshold, 1>>, RefAverage(k)))

RefDynamic(k) == RMul(RefAverage(k), <<runConfig.thresholdMultiplier, 1>>)

RefUp(k) ==
    RMul(<<candles[k + 1].close, 1>>, RAdd(<<1, 1>>, RDiv(RefDynamic(k), <<100, 1>>)))

RefDown(k) ==
    RMul(<<candles[k + 1].close, 1>>, RSub(<<1, 1>>, RDiv(RefDynamic(k), <<100, 1>>)))

CrossesUp(j, k) == RGeq(<<candles[j + 1].high, 1>>, RefUp(k))

CrossesDown(j, k) == RLeq(<<candles[j + 1].low, 1>>, RefDown(k))

Crosses(j, k) == CrossesUp(j, k) \/ CrossesDown(j, k)

LastIndex == Len(candles) - 1

(* look-forward window of the legend candle at index k *)
RefWindow(k) ==
    (k + 1) .. (IF k + runConfig.maxLookForwardCandles < LastIndex
                THEN k + runConfig.maxLookForwardCandles ELSE LastIndex)

(* candle indices the main loop has finished *)
Evaluated == RefLookback .. (i - 1)

ResultsAt(k) == {n \in 1..Len(results) : results[n].timestamp = k}

HasEntry(r) == r.entry # <<>>

EntryOf(r) == r.entry[1]

----------------------------------------------------------------------------
(* Claims *)

(* C1 as stated: every candle index from lookbackPeriod to the last index  *)
(* produces exactly one result in the returned list, whatever the legend   *)
(* check says, so the list has len(candles) - lookbackPeriod entries.      *)
C1_EveryCandleEmits ==
    (pc = "returned" /\ Len(candles) >= RefLookback) =>
        /\ \A k \in RefLookback .. LastIndex : Cardinality(ResultsAt(k)) = 1
        /\ Len(results) = Len(candles) - RefLookback

(* C1 amended: a candle past the warm-up produces exactly one result when  *)
(* it passes the legend check currentDiff >= averageMove * threshold, and  *)
(* none otherwise; the result list has one entry per passing candle.       *)
C1_GateDecidesEmission ==
    /\ \A k \in Evaluated :
          Cardinality(ResultsAt(k)) = (IF RefGate(k) THEN 1 ELSE 0)
    /\ Len(results) = Cardinality({k \in Evaluated : RefGate(k)})
    /\ (pc = "returned" /\ Len(candles) >= RefLookback) => i = Len(candles)

C1_Witness ==
    /\ pc = "returned"
    /\ \E k \in Evaluated : ~RefGate(k)
    /\ \E k \in Evaluated : RefGate(k)
    /\ Len(results) < Len(candles) - RefLookback

(* C2: when the first crossing candle of the window crosses both           *)
(* thresholds, the entry is LONG with reason UpwardThresholdMet.           *)
C2_UpwardWinsTies ==
    \A n \in 1..Len(results) :
        LET r == results[n]
            k == r.timestamp
        IN  \A j \in RefWindow(k) :
                ( /\ CrossesUp(j, k)
                  /\ CrossesDown(j, k)
                  /\ \A m \in RefWindow(k) : m < j => ~Crosses(m, k) )
                => /\ HasEntry(r)
                   /\ EntryOf(r).side = "LONG"
                   /\ EntryOf(r).reason = "UpwardThresholdMet"

C2_Witness ==
    \E n \in 1..Len(results) :
        LET r == results[n]
            k == r.timestamp
        IN  /\ HasEntry(r)
            /\ EntryOf(r).side = "LONG"
            /\ CrossesUp(EntryOf(r).time, k)
            /\ CrossesDown(EntryOf(r).time, k)

(* C3: the entry scan of the legend candle at index k reads only indices   *)
(* k+1 .. min(k + maxLookForwardCandles, last index), and a crossing that  *)
(* first occurs maxLookForwardCandles + 1 candles after k gives a result   *)
(* with no entry and success = false.                                      *)
C3_LookAheadBound ==
    \A n \in 1..Len(results) :
        LET r == results[n]
            k == r.timestamp
            late == k + runConfig.maxLookForwardCandles + 1
        IN  /\ \A x \in scanReads[n] :
                  /\ x > k
                  /\ x <= k + runConfig.maxLookForwardCandles
                  /\ x <= LastIndex
            /\ ( /\ late <= LastIndex
                 /\ Crosses(late, k)
                 /\ \A m \in (k + 1) .. (late - 1) : ~Crosses(m, k) )
               => (~HasEntry(r) /\ r.success = FALSE)

C3_Witness ==
    \E n \in 1..Len(results) :
        LET r == results[n]
            k == r.timestamp
            late == k + runConfig.maxLookForwardCandles + 1
        IN  /\ late <= LastIndex
            /\ Crosses(late, k)
            /\ ~HasEntry(r)
            /\ scanReads[n] = (k + 1) .. (late - 1)

(* C4: the triggering candle of an entry is the lowest-index candle of the *)
(* look-forward window that crosses a threshold, and the scan reads no     *)
(* candle after it.                                                        *)
C4_FirstTrigger ==
    \A n \in 1..Len(results) :
        LET r == results[n]
            k == r.timestamp
        IN  HasEntry(r) =>
                LET t == EntryOf(r).time
                IN  /\ t \in RefWindow(k)
                    /\ Crosses(t, k)
                    /\ \A m \in RefWindow(k) : m < t => ~Crosses(m, k)
                    /\ \A x \in scanReads[n] : x <= t

C4_Witness ==
    \E n \in 1..Len(results) :
        LET r == results[n]
            k == r.timestamp
        IN  /\ HasEntry(r)
            /\ \E m \in RefWindow(k) : m > EntryOf(r).time /\ Crosses(m, k)


(* C5: for every result with an entry, candlesUntilThreshold is the index  *)
(* of the triggering candle minus the index of the legend candle, and lies *)
(* in 1 .. maxLookForwardCandles.                                          *)
C5_CandlesUntilThreshold ==
    \A n \in 1..Len(results) :
        LET r == results[n]
        IN  HasEntry(r) =>
                /\ EntryOf(r).candlesUntilThreshold = EntryOf(r).time - r.timestamp
                /\ EntryOf(r).candlesUntilThreshold >= 1
                /\ EntryOf(r).candlesUntilThreshold <= runConfig.maxLookForwardCandles

C5_Witness ==
    \E n \in 1..Len(results) :
        /\ HasEntry(results[n])
        /\ EntryOf(results[n]).candlesUntilThreshold = 2
        /\ EntryOf(results[n]).time = results[n].timestamp + 2

(* C6: a LONG entry is priced at the legend candle's upward threshold with *)
(* reason UpwardThresholdMet, a SHORT entry at the downward threshold with *)
(* reason DownwardThresholdMet; an entry is one or the other.              *)
C6_EntryPriceAndSide ==
    \A n \in 1..Len(results) :
        LET r == results[n]
            k == r.timestamp
        IN  HasEntry(r) =>
                \/ /\ EntryOf(r).side = "LONG"
                   /\ EntryOf(r).reason = "UpwardThresholdMet"
                   /\ EntryOf(r).price = RefUp(k)
                \/ /\ EntryOf(r).side = "SHORT"
                   /\ EntryOf(r).reason = "DownwardThresholdMet"
                   /\ EntryOf(r).price = RefDown(k)

C6_Witness ==
    /\ \E n \in 1..Len(results) :
          /\ HasEntry(results[n])
          /\ EntryOf(results[n]).side = "LONG"
          /\ EntryOf(results[n]).price # <<candles[EntryOf(results[n]).time + 1].high, 1>>
    /\ \E n \in 1..Len(results) :
          /\ HasEntry(results[n])
          /\ EntryOf(results[n]).side = "SHORT"
          /\ EntryOf(results[n]).price # <<candles[EntryOf(results[n]).time + 1].low, 1>>

(* C7: success is true exactly when the result carries an entry, and the   *)
(* entry is absent exactly when no candle of the look-forward window       *)
(* crosses a threshold.                                                    *)
C7_SuccessIffEntry ==
    \A n \in 1..Len(results) :
        LET r == results[n]
            k == r.timestamp
        IN  /\ r.success = HasEntry(r)
            /\ Len(r.entry) <= 1
            /\ (~HasEntry(r)) = (\A m \in RefWindow(k) : ~Crosses(m, k))

C7_Witness ==
    /\ \E n \in 1..Len(results) :
          /\ ~HasEntry(results[n])
          /\ RefWindow(results[n].timestamp) # {}
    /\ \E n \in 1..Len(results) :
          /\ HasEntry(results[n])
          /\ EntryOf(results[n]).side = "SHORT"

(* C8: the Legend_Candle_no values of the result list are 1..N in list     *)
(* order, and the list is in ascending order of the legend candles'        *)
(* indices.                                                                *)
C8_LegendNumbering ==
    /\ \A n \in 1..Len(results) : results[n].Legend_Candle_no = n
    /\ \A m, n \in 1..Len(results) :
          m < n => results[m].timestamp < results[n].timestamp

C8_Witness ==
    /\ pc = "returned"
    /\ Len(results) >= 3

(* statistics recomputed from a result list *)
RefSuccessCount(list) == Cardinality({n \in 1..Len(list) : list[n].success})

RefRate(list) ==
    IF Len(list) = 0 THEN <<0, 1>>
    ELSE Rat(RefSuccessCount(list) * 100, Len(list))

(* C9: after a run the recorded statistics (getStats and the written       *)
(* document) equal the statistics recomputed from the returned list.       *)
C9_StatsConsistency ==
    pc = "returned" =>
        LET st == getStats(totalCandles, legendCandles, successfulTrades)
        IN  /\ st.legendCandles = Len(results)
            /\ st.successfulTrades = RefSuccessCount(results)
            /\ st.successRate = RefRate(results)
            /\ \A d \in 1..Len(written) :
                  /\ written[d].results = results
                  /\ written[d].stats.legendCandles = Len(results)
                  /\ written[d].stats.successfulTrades = RefSuccessCount(results)
                  /\ written[d].stats.successRate = RefRate(results)

C9_Witness ==
    /\ pc = "returned"
    /\ Len(written) = 1
    /\ Len(results) >= 2
    /\ RefSuccessCount(results) >= 1
    /\ RefSuccessCount(results) < Len(results)

(* C10 as stated: a run on a series shorter than lookbackPeriod returns an *)
(* empty list without an error, and all statistics, total candles         *)
(* included, are zero.                                                     *)
C10_ShortSeriesAllZero ==
    (pc \in {"returned", "threw"} /\ Len(candles) < RefLookback) =>
        /\ pc = "returned"
        /\ results = <<>>
        /\ totalCandles = 0
        /\ legendCandles = 0
        /\ successfulTrades = 0
        /\ getStats(totalCandles, legendCandles, successfulTrades).successRate = <<0, 1>>

(* C10 amended: such a run returns an empty list without an error, legend  *)
(* candles and successful trades are 0 and the success rate is 0, while    *)
(* total candles is the number of candles loaded.                          *)
C10_ShortSeriesEmpty ==
    (pc \in {"returned", "threw"} /\ Len(candles) < RefLookback) =>
        /\ pc = "returned"
        /\ results = <<>>
        /\ totalCandles = Len(candles)
        /\ legendCandles = 0
        /\ successfulTrades = 0
        /\ getStats(totalCandles, legendCandles, successfulTrades).successRate = <<0, 1>>

C10_Witness ==
    /\ pc = "returned"
    /\ Len(candles) < RefLookback
    /\ Len(candles) > 0
    /\ symbolInfo = "unset"
    /\ totalCandles > 0


(* C11: for every result the dynamic threshold is the mean move of the     *)
(* lookbackPeriod candles before the legend candle times                   *)
(* thresholdMultiplier, the thresholds are close * (1 +/- that / 100) for  *)
(* the legend candle's own close, and the entry is priced at them; the     *)
(* base threshold plays no part in these prices.                           *)
C11_ThresholdSizing ==
    \A n \in 1..Len(results) :
        LET r == results[n]
            k == r.timestamp
        IN  /\ r.LegendCandle.currentDynamicThreshold = RefDynamic(k)
            /\ r.LegendCandle.upwardThreshold = RefUp(k)
            /\ r.LegendCandle.downwardThreshold = RefDown(k)
            /\ HasEntry(r) =>
                  EntryOf(r).price = (IF EntryOf(r).side = "LONG"
                                      THEN RefUp(k) ELSE RefDown(k))

C11_Witness ==
    \E n \in 1..Len(results) :
        /\ runConfig.threshold # runConfig.thresholdMultiplier
        /\ RefAverage(results[n].timestamp) # <<0, 1>>
        /\ HasEntry(results[n])
        /\ results[n].LegendCandle.upwardThreshold
              # results[n].LegendCandle.downwardThreshold

(* C12: no candle below index lookbackPeriod is evaluated or reported, and *)
(* the window of an evaluated candle i is exactly the lookbackPeriod       *)
(* indices i - lookbackPeriod .. i - 1.                                    *)
C12_WarmUp ==
    /\ \A n \in 1..Len(evaluated) :
          /\ evaluated[n].index >= RefLookback
          /\ Cardinality(evaluated[n].window) = RefLookback
          /\ \A x \in evaluated[n].window :
                /\ x >= evaluated[n].index - RefLookback
                /\ x < evaluated[n].index
    /\ \A n \in 1..Len(results) : results[n].timestamp >= RefLookback

C12_Witness ==
    /\ RefLookback = 2
    /\ Len(evaluated) >= 2
    /\ Len(results) >= 1
    /\ evaluated[1].index = 2

ParallelMode == useParallel /\ batchDriver # "runBatch"

RefLimit ==
    IF batchDriver = "runBatchBacktest" /\ concurrencyLimit = 0
    THEN DefaultConcurrencyLimit
    ELSE concurrencyLimit

RefPath(symbol, timeframe) == <<"results", symbol, <<timeframe, "_results.json">> >>

Pending == {p \in DOMAIN status : status[p] = "pending"}

(* C14: an error in one (symbol, timeframe) run ends only that run: no     *)
(* batch driver is aborted by it, and when a driver's loop is over every   *)
(* combination of its queue has been processed.                            *)
C14_FailureIsolated ==
    /\ bpc # "aborted"
    /\ bpc = "done" => Pending = {}

C16_NoWriteContention ==
    /\ \A f \in inFlight : f.path = RefPath(f.symbol, f.timeframe)
    /\ \A f, g \in inFlight : f.path = g.path => f = g
    /\ \A m, n \in 1..Len(queue) : queue[m] = queue[n] => m = n
    /\ \A n \in 1..Len(queue) : status[queue[n]] = "pending"

(* two timeframes of one symbol are scanned side by side *)
C16_Witness ==
    \E f, g \in inFlight : f.symbol = g.symbol /\ f.timeframe # g.timeframe


(* C17 as stated: the move of every reported legend candle is at least the *)
(* dynamic threshold recorded in its result.                               *)
C17_LegendExceedsRecorded ==
    \A n \in 1..Len(results) :
        RGeq(RefMove(results[n].timestamp),
             results[n].LegendCandle.currentDynamicThreshold)

(* C19 as stated: whenever findThresholds has returned normally the result *)
(* document has been written.                                              *)
C19_ResultsAlwaysCreated ==
    pc = "returned" =>
        /\ Len(written) = 1
        /\ written[1].results = results

(* C20 as stated: no scan starts with the symbol info unset.               *)
C20_InfoSetBeforeScan ==
    pc # "idle" => symbolInfo = "set"


(* the result of the scenario's evaluated candle (index 3), if any *)
ScenarioResults == {n \in 1..Len(results) : results[n].timestamp = 3}

(* C18 as stated (prices in tenths): dynamicThreshold 1%, upward 101,      *)
(* downward 99, and with a forward candle of high 130 a LONG entry at 101  *)
(* with candlesUntilThreshold 1 and success.                               *)
C18_ScenarioAsStated ==
    \A n \in ScenarioResults :
        LET r == results[n]
        IN  /\ r.LegendCandle.currentDynamicThreshold = <<1, 1>>
            /\ r.LegendCandle.upwardThreshold = <<1010, 1>>
            /\ r.LegendCandle.downwardThreshold = <<990, 1>>
            /\ Len(candles) >= 5 =>
                  /\ HasEntry(r)
                  /\ EntryOf(r).side = "LONG"
                  /\ EntryOf(r).price = <<1010, 1>>
                  /\ EntryOf(r).candlesUntilThreshold = 1
                  /\ r.success

(* C18 amended (prices in tenths): dynamicThreshold 1%, upward 121.2,      *)
(* downward 118.8 (1% around the close 120), and with a forward candle of  *)
(* high 130 a LONG entry at 121.2 with candlesUntilThreshold 1 and         *)
(* success; the evaluated candle always yields a result.                   *)
C18_ScenarioAroundClose ==
    /\ i > 3 => Cardinality(ScenarioResults) = 1
    /\ \A n \in ScenarioResults :
          LET r == results[n]
          IN  /\ r.LegendCandle.currentDynamicThreshold = <<1, 1>>
              /\ r.LegendCandle.upwardThreshold = <<1212, 1>>
              /\ r.LegendCandle.downwardThreshold = <<1188, 1>>
              /\ Len(candles) >= 5 =>
                    /\ HasEntry(r)
                    /\ EntryOf(r).side = "LONG"
                    /\ EntryOf(r).reason = "UpwardThresholdMet"
                    /\ EntryOf(r).price = <<1212, 1>>
                    /\ EntryOf(r).candlesUntilThreshold = 1
                    /\ r.success

C18_Witness ==
    /\ pc = "returned"
    /\ Len(candles) >= 5
    /\ candles[5].high = 1300
    /\ \E n \in ScenarioResults :
          /\ HasEntry(results[n])
          /\ EntryOf(results[n]).time = 4

(* C21: for every configured concurrencyLimit the parallel loops drain:    *)
(* unless a failed run has thrown the driver out of its loop, the queue is *)
(* eventually empty and the loop is left.                                  *)
C21_DrainTerminates ==
    ParallelMode => <>(bpc = "done" \/ bpc = "aborted")

(* Reference definitions of the repeatability property. *)
RECURSIVE CountSuccess(_)
CountSuccess(list) ==
    IF list = <<>> THEN 0
    ELSE (IF list[1].success THEN 1 ELSE 0) + CountSuccess(Tail(list))

(* C22: a second findThresholds on the same Backtester, with the same      *)
(* candles, returns the list the first call returned, and the counters     *)
(* getStats reports are the counts of that list.                           *)
C22_RerunRepeats ==
    (Len(returned) = 2 /\ pc = "returned") =>
        /\ returned[2] = returned[1]
        /\ getStats(totalCandles, legendCandles, successfulTrades).legendCandles
              = Len(returned[2])
        /\ getStats(totalCandles, legendCandles, successfulTrades).successfulTrades
              = CountSuccess(returned[2])

====
